---- MODULE Spec2Model ----
(***************************************************************************)
(* rjob: a config-driven HTTP cron runner.                                 *)
(*                                                                         *)
(* The model follows src/src/scheduler/cron_scheduler.rs (the scheduler    *)
(* set-up and the per-firing executor start_http_job) and                  *)
(* src/src/configure/mod.rs (the registry: timezone and job list).         *)
(*                                                                         *)
(* Time is the time of day at the scheduler's evaluation instants.  The    *)
(* unit is the one in which the modelled timezones differ by one; DayLen   *)
(* units make a day.                                                       *)
(***************************************************************************)
EXTENDS Integers, Sequences, FiniteSets, TLC

-----------------------------------------------------------------------------
(* Bounds of the model *)

\* Largest number of job entries in the job-definition document.
MaxJobs == 2
\* Largest number of firings dispatched in one run.
MaxFirings == 2
\* Length of a day in model time units.
DayLen == 2

-----------------------------------------------------------------------------
(* Program constants *)

\* http_jobs.rs: max_retry defaults to 3.
DefaultMaxRetry == 3

-----------------------------------------------------------------------------
(* Input domains *)

\* Cron expressions: one that matches every instant, one that matches the
\* first instant of each day (it constrains the hour field, so the timezone
\* it is evaluated in matters).
EveryTick == "* * * * * *"
DailyAtZero == "0 0 0 * * *"
Crons == {EveryTick, DailyAtZero}

\* Timezones: UTC and one timezone one unit ahead of UTC.
Timezones == {"UTC", "Asia/Shanghai"}

\* What the document's "timezone" key can hold: nothing, a string that is no
\* IANA name, or a valid name.
NoTimezone == "<absent>"
ConfigTimezones == {NoTimezone, "Mars/Olympus", "Asia/Shanghai"}

\* max_retry values the document can give.
RetryBudgets == {0, DefaultMaxRetry}

\* HTTP statuses a peer can answer with.
Statuses == {200, 404}

\* The HttpJob fields (models/http_job.rs) the scheduler and the executor's
\* control flow can depend on, as the documents the scheduler is run on
\* choose them.
HttpJob == [enable : BOOLEAN, cron : Crons, max_retry : RetryBudgets]

\* All sequences over S of length lo..hi.
SeqsOf(S, lo, hi) == UNION {[1..n -> S] : n \in lo..hi}

-----------------------------------------------------------------------------
(* Decoded documents: serde_json::Value *)

\* A value found under a key: its JSON type and payload.  Absent is what
\* Value::get returns for a key that is not there.
JV(t, v) == [t |-> t, v |-> v]
Absent == JV("absent", 0)
JBool(b) == JV("bool", b)
JNum(n) == JV("u64", n)
JNeg == JV("i64", 0)
JStr(x) == JV("str", x)
JObj(o) == JV("obj", o)
JArr(a) == JV("arr", a)

\* Option<T> is a sequence of length at most one; Result<T, E> is a record.
None == <<>>
Some(x) == <<x>>
Ok(v) == [ok |-> TRUE, val |-> v]
Err(msg) == [ok |-> FALSE, val |-> msg]

\* value.get(k).and_then(as_T): Some(payload) when the key holds a value of
\* JSON type t.
GetAs(x, t) == IF x.t = t THEN Some(x.v) ELSE None

\* Mutant: the default is taken whatever the document says.
unwrap_or_default(o, d) == d

\* Option::unwrap_or.
unwrap_or(o, d) == IF o = None THEN d ELSE o[1]

-----------------------------------------------------------------------------
(* Strings whose letters matter: HTTP method names *)

\* A method string is a sequence of letters.
LowerOf ==
    [c \in {"G", "E", "T", "P", "O", "S", "U", "A", "C", "H", "D", "L", "I",
            "N", "R"} |->
        CASE c = "G" -> "g" [] c = "E" -> "e" [] c = "T" -> "t"
          [] c = "P" -> "p" [] c = "O" -> "o" [] c = "S" -> "s"
          [] c = "U" -> "u" [] c = "A" -> "a" [] c = "C" -> "c"
          [] c = "H" -> "h" [] c = "D" -> "d" [] c = "L" -> "l"
          [] c = "I" -> "i" [] c = "N" -> "n" [] c = "R" -> "r"]

\* str::to_lowercase.
to_lowercase(w) ==
    [n \in DOMAIN w |-> IF w[n] \in DOMAIN LowerOf THEN LowerOf[w[n]] ELSE w[n]]

\* http_jobs.rs: method defaults to "GET".
DefaultMethod == <<"G", "E", "T">>

\* get_method: the reqwest Method for a job's method string.
get_method(method) ==
    LET m == to_lowercase(method)
    IN  CASE m = <<"g", "e", "t">> -> "GET"
          [] m = <<"p", "o", "s", "t">> -> "POST"
          [] m = <<"p", "u", "t">> -> "PUT"
          [] m = <<"o", "p", "t", "i", "o", "n", "s">> -> "OPTIONS"
          [] m = <<"d", "e", "l", "e", "t", "e">> -> "DELETE"
          [] OTHER -> "GET"

-----------------------------------------------------------------------------
(* Job decoding: configure/http_jobs.rs *)

\* HeaderName::try_from: a valid name is kept in its lower-case form, any
\* other key is refused.
HeaderNameOf ==
    [k \in {"Content-Type", "content-type", "X-Token"} |->
        CASE k = "Content-Type" -> "content-type"
          [] k = "content-type" -> "content-type"
          [] k = "X-Token" -> "x-token"]

\* HeaderValue::try_from: a string with a line break in it is refused.
ValidHeaderValue(v) == v # "two\nlines"

\* The loop that fills the HeaderMap from the headers object, a sequence of
\* <<key, value>> members: header_map.append for each member, the first
\* failing member ends it.
RECURSIVE header_map(_, _)
header_map(members, acc) ==
    IF members = <<>> THEN Ok(acc)
    ELSE LET k == members[1][1]
             v == members[1][2]
         IN  IF k \notin DOMAIN HeaderNameOf
             THEN Err("invalid HTTP header name")
             ELSE IF v.t # "str"
             THEN Err("The value of the header must be a string.")
             ELSE IF ~ValidHeaderValue(v.v)
             THEN Err("invalid HTTP header value")
             ELSE header_map(Tail(members),
                             Append(acc, <<HeaderNameOf[k], v.v>>))

\* serde_json::to_string of the body object.
to_string(o) == <<"json text of", o>>

\* get_http_job_request: `it` is one member of the http_jobs array.
get_http_job_request(it) ==
    IF it.request.t = "absent"
    THEN Err("The 'request' field is required in the JSON value.")
    ELSE
    LET request == it.request
        member(k) == IF request.t = "obj" THEN request.v[k] ELSE Absent
        url == GetAs(member("url"), "str")
        method == unwrap_or(GetAs(member("method"), "str"), DefaultMethod)
        hobj == GetAs(member("headers"), "obj")
        headers == IF hobj = None THEN Ok(None)
                   ELSE LET r == header_map(hobj[1], <<>>)
                        IN  IF r.ok THEN Ok(Some(r.val)) ELSE r
        bobj == GetAs(member("body"), "obj")
        body == IF bobj = None THEN None ELSE Some(to_string(bobj[1]))
    IN  IF url = None
        THEN Err("The 'url' field is required and must be a string.")
        ELSE IF ~headers.ok THEN headers
        ELSE Ok([url |-> url[1], method |-> method,
                 headers |-> headers.val, body |-> body])

\* http_jobs.rs: timeout defaults to 5000.
DefaultTimeout == 5000

\* One turn of the loop of get_http_jobs: the HttpJob decoded from `it`.
decode_job(it) ==
    LET name == GetAs(it.name, "str")
        enable == unwrap_or(GetAs(it.enable, "bool"), TRUE)
        cron == GetAs(it.cron, "str")
        timeout == unwrap_or(GetAs(it.timeout, "u64"), DefaultTimeout)
        max_retry == unwrap_or(GetAs(it.max_retry, "u64"), DefaultMaxRetry)
        request == get_http_job_request(it)
    IN  IF name = None
        THEN Err("The 'name' field is missing or not a string.")
        ELSE IF cron = None
        THEN Err("The 'cron' field is missing or not a string.")
        ELSE IF ~request.ok THEN request
        ELSE Ok([name |-> name[1], enable |-> enable, cron |-> cron[1],
                 timeout |-> timeout, max_retry |-> max_retry,
                 request |-> request.val])

\* Mutant: an entry that fails to decode is skipped.
RECURSIVE decode_jobs_skipping(_, _)
decode_jobs_skipping(its, acc) ==
    IF its = <<>> THEN Ok(acc)
    ELSE LET r == decode_job(its[1])
         IN  decode_jobs_skipping(Tail(its),
                                  IF r.ok THEN Append(acc, r.val) ELSE acc)

RECURSIVE decode_jobs(_, _)
decode_jobs(its, acc) ==
    IF its = <<>> THEN Ok(acc)
    ELSE LET r == decode_job(its[1])
         IN  IF r.ok THEN decode_jobs(Tail(its), Append(acc, r.val)) ELSE r

\* get_http_jobs: the job list of the document, or the first error.
get_http_jobs(value) ==
    IF value.http_jobs.t = "absent"
    THEN Err("The 'http_jobs' field is missing in the JSON configuration.")
    ELSE IF value.http_jobs.t # "arr"
    THEN Err("The 'http_jobs' field must be an array in the JSON configuration.")
    ELSE decode_jobs(value.http_jobs.v, <<>>)

-----------------------------------------------------------------------------
(* Documents the scheduler is run on *)

\* The name and the url of the i-th entry: every entry has its own.
JobName(i) == <<"job", i>>
JobUrl(i) == <<"http://host/", i>>

\* The i-th entry of a document, written out for job j.
Entry(i, j) ==
    [name |-> JStr(JobName(i)), enable |-> JBool(j.enable),
     cron |-> JStr(j.cron), timeout |-> Absent,
     max_retry |-> JNum(j.max_retry),
     request |-> JObj([url |-> JStr(JobUrl(i)), method |-> Absent,
                       headers |-> Absent, body |-> Absent])]

\* An entry that lacks one of its required fields.
RequiredFields == {"name", "cron", "url"}
Defective(i, field) ==
    LET e == Entry(i, [enable |-> TRUE, cron |-> EveryTick,
                       max_retry |-> DefaultMaxRetry])
    IN  CASE field = "name" -> [e EXCEPT !.name = Absent]
          [] field = "cron" -> [e EXCEPT !.cron = Absent]
          [] field = "url" -> [e EXCEPT !.request.v.url = Absent]

Entries(i) ==
    {Entry(i, j) : j \in HttpJob} \cup {Defective(i, f) : f \in RequiredFields}

\* The http_jobs arrays of at most MaxJobs entries.
JobArrays ==
    UNION { {a \in [1..n -> UNION {Entries(i) : i \in 1..n}] :
                \A i \in 1..n : a[i] \in Entries(i)} : n \in 0..MaxJobs }

-----------------------------------------------------------------------------
VARIABLES
    config,     \* the decoded job-definition document: timezone key, job list
    hostTz,     \* the timezone of the host the process runs on (chrono::Local)
    phase,      \* "boot" | "running" | "exited"
    registered, \* indices of the jobs added to the scheduler, in order
    now,        \* current UTC time of day, in model units (0..DayLen-1)
    firings,    \* the spawned start_http_job tasks, in dispatch order
    arg,        \* the argument of the function a function-level run calls
    ret         \* what that function returned

vars == <<config, hostTz, phase, registered, now, firings, arg, ret>>

\* No call: the value of arg and ret while the scheduler runs, and of ret
\* before the call of a function-level run.
NoCall == <<>>

\* The call of a function-level run has returned; what it returned.
Returned == ret # NoCall
Ret == ret[1]

-----------------------------------------------------------------------------
(* Registry: configure/mod.rs *)

\* chrono_tz Tz::from_str on the timezone key, with the UTC fallbacks of
\* init_read_jobs.
ParseTimezone(tz) == IF tz \in Timezones THEN tz ELSE "UTC"

\* The Jobs value init_read_jobs builds.
init_read_jobs(cfg) ==
    LET r == get_http_jobs(cfg)
    IN  [timezone |-> ParseTimezone(cfg.timezone),
         http_jobs |-> IF r.ok THEN r.val ELSE <<>>]

JOBS == init_read_jobs(config)

-----------------------------------------------------------------------------
(* Time *)

UtcOffset(tz) == IF tz = "UTC" THEN 0 ELSE 1

\* The wall-clock time of day in timezone tz at UTC time of day t.
LocalTime(t, tz) == (t + UtcOffset(tz)) % DayLen

\* cron::Schedule matching of expression c against a wall-clock time.
CronMatches(c, t) ==
    CASE c = EveryTick -> TRUE
      [] c = DailyAtZero -> t = 0

-----------------------------------------------------------------------------
(* Scheduler set-up: start_cron_scheduler *)

\* The loop over http_jobs: the jobs handed to scheduler.add, by index in the
\* registry, in registry order.
\* Mutant: the loop without its `if it.enable` test.
RegisteredAll(jobs, i) == [n \in 1..Len(jobs) |-> n]

RECURSIVE Registered(_, _)
Registered(jobs, i) ==
    IF i > Len(jobs) THEN <<>>
    ELSE (IF jobs[i].enable THEN <<i>> ELSE <<>>) \o Registered(jobs, i + 1)

\* Scheduler::local(): the scheduler evaluates cron expressions in the host's
\* local timezone.
SchedulerTz == hostTz

\* Mutant: every registered job runs at every instant, whatever its schedule.
DueIgnoringCron(t) == registered

\* Mutant: single-flight, a job with an unfinished firing is skipped.
DueSingleFlight(t) ==
    SelectSeq(registered,
              LAMBDA i :
                /\ CronMatches(JOBS.http_jobs[i].cron, LocalTime(t, hostTz))
                /\ ~\E k \in DOMAIN firings :
                       /\ firings[k].job = i
                       /\ firings[k].pc \in {"spawned", "send", "text"})

\* The jobs whose closure the scheduler runs at UTC time t: the registered
\* jobs whose schedule matches the scheduler's wall-clock time.
Due(t) ==
    SelectSeq(registered,
              LAMBDA i : CronMatches(JOBS.http_jobs[i].cron,
                                     LocalTime(t, SchedulerTz)))

\* Mutant: every closure holds the job registered last.
SpawnLastRegistered(i) ==
    [job |-> i, http_job |-> registered[Len(registered)], pc |-> "spawned",
     attempts |-> 0, peer |-> "answers", outcomes |-> <<>>, log |-> <<>>,
     name |-> None, sent |-> None]

\* tokio::spawn(start_http_job(http_job)): a new task that has not run yet.
\* job is the registered job whose closure ran; http_job is the Arc the
\* closure hands to the task, a pointer to that job's value.
Spawn(i) ==
    [job |-> i, http_job |-> i, pc |-> "spawned",
     attempts |-> 0, peer |-> "answers", outcomes |-> <<>>, log |-> <<>>,
     name |-> None, sent |-> None]

-----------------------------------------------------------------------------
(* Executor: start_http_job *)

LogRec(kind, status) == [kind |-> kind, status |-> status]

\* What request_builder.send().await can resolve to.
TransportError == [kind |-> "err", status |-> 0]
Response(s) == [kind |-> "resp", status |-> s]
SendResults == {TransportError} \cup {Response(s) : s \in Statuses}

\* Mutant: the 2xx test without its upper end.
is_success_unbounded(s) == s >= 200

\* StatusCode::is_success: 2xx.
is_success(s) == s >= 200 /\ s < 300

\* The record printed right after a response arrives.
StatusLog(s) ==
    IF is_success(s) THEN LogRec("success", s) ELSE LogRec("failed_status", s)

\* The request start_http_job builds from a job's request template: the
\* resolved method, the url as it is, the template's headers
\* (RequestBuilder::headers), and for a template with a body one more
\* Content-Type member (RequestBuilder::header appends to the members already
\* there) and the body.
build_request(request) ==
    LET explicit == IF request.headers = None THEN <<>> ELSE request.headers[1]
    IN  [method |-> get_method(request.method),
         url |-> request.url,
         headers |-> IF request.body = None THEN explicit
                     ELSE Append(explicit, <<"content-type", "application/json">>),
         body |-> request.body]

\* From the task's first poll to the first await: the start records are
\* printed, the request is built and sent once.  Neither the client nor the
\* request is given a timeout and max_retry is not read.  The peer either
\* answers the request at some point or never does.
\* name is the job name the start records carry, sent the request that goes
\* out.
Begin(f, p) ==
    LET http_job == JOBS.http_jobs[f.http_job]
    IN  [f EXCEPT !.pc = "send", !.attempts = @ + 1, !.peer = p,
                  !.log = <<LogRec("start", 0), LogRec("job", 0)>>,
                  !.name = Some(http_job.name),
                  !.sent = Some(build_request(http_job.request))]

\* Mutant: a non-2xx response is treated like a transport error that is
\* retried, the request is sent again.
HandleSendRetryOnStatus(f, r) ==
    IF r.kind = "resp" /\ is_success(r.status)
    THEN [f EXCEPT !.pc = "text", !.outcomes = Append(@, r),
                   !.log = Append(@, StatusLog(r.status))]
    ELSE [f EXCEPT !.pc = "send", !.attempts = @ + 1,
                   !.outcomes = Append(@, r),
                   !.log = Append(@, LogRec("failed_status", r.status))]

\* match resp: a response is classified, logged and its body awaited; a
\* transport error is logged and the firing ends.
HandleSend(f, r) ==
    IF r.kind = "resp"
    THEN [f EXCEPT !.pc = "text", !.outcomes = Append(@, r),
                   !.log = Append(@, StatusLog(r.status))]
    ELSE [f EXCEPT !.pc = "end", !.outcomes = Append(@, r),
                   !.log = @ \o <<LogRec("failed_error", 0), LogRec("end", 0)>>]

\* resp.text().await.unwrap(): the body is printed and the firing ends, or
\* reading the body fails and unwrap panics, which ends the task there.
HandleText(f, ok) ==
    IF ok
    THEN [f EXCEPT !.pc = "end",
                   !.log = @ \o <<LogRec("body", 0), LogRec("end", 0)>>]
    ELSE [f EXCEPT !.pc = "panicked"]

-----------------------------------------------------------------------------
(* State machine *)

Init ==
    /\ config \in [timezone : ConfigTimezones,
                   http_jobs : {JArr(a) : a \in JobArrays}]
    /\ hostTz \in Timezones
    /\ phase = "boot"
    /\ registered = <<>>
    /\ now = 0
    /\ firings = <<>>
    /\ arg = NoCall
    /\ ret = NoCall

\* Mutant: a timezone that does not parse ends the process too.
ExitOnBadTimezone ==
    /\ phase = "boot"
    /\ Len(JOBS.http_jobs) = 0 \/ config.timezone \notin Timezones
    /\ phase' = "exited"
    /\ UNCHANGED <<arg, ret, config, hostTz, registered, now, firings>>

\* init_read_jobs: an empty job list ends the process.
Exit ==
    /\ phase = "boot"
    /\ Len(JOBS.http_jobs) = 0
    /\ phase' = "exited"
    /\ UNCHANGED <<arg, ret, config, hostTz, registered, now, firings>>

StartCronScheduler ==
    /\ phase = "boot"
    /\ Len(JOBS.http_jobs) > 0
    /\ phase' = "running"
    /\ registered' = Registered(JOBS.http_jobs, 1)
    /\ UNCHANGED <<arg, ret, config, hostTz, now, firings>>

\* One evaluation instant of the scheduler: every due job's closure runs and
\* spawns one task; then time moves on.
Tick ==
    /\ phase = "running"
    /\ LET due == Due(now) IN
        /\ Len(firings) + Len(due) <= MaxFirings
        /\ firings' = firings \o [n \in 1..Len(due) |-> Spawn(due[n])]
    /\ now' = (now + 1) % DayLen
    /\ UNCHANGED <<arg, ret, config, hostTz, phase, registered>>

FiringStart(k) ==
    /\ k \in DOMAIN firings
    /\ firings[k].pc = "spawned"
    /\ \E p \in {"answers", "silent"} :
         firings' = [firings EXCEPT ![k] = Begin(@, p)]
    /\ UNCHANGED <<arg, ret, config, hostTz, phase, registered, now>>

\* Mutant: the panic of a task takes the process down with it.
TextResolveAborting(k) ==
    /\ k \in DOMAIN firings
    /\ firings[k].pc = "text"
    /\ \E ok \in BOOLEAN :
         /\ firings' = [firings EXCEPT ![k] = HandleText(@, ok)]
         /\ phase' = IF ok THEN phase ELSE "exited"
    /\ UNCHANGED <<arg, ret, config, hostTz, registered, now>>

SendResolve(k) ==
    /\ k \in DOMAIN firings
    /\ firings[k].pc = "send"
    /\ firings[k].peer = "answers"
    /\ \E r \in SendResults :
         firings' = [firings EXCEPT ![k] = HandleSend(@, r)]
    /\ UNCHANGED <<arg, ret, config, hostTz, phase, registered, now>>

TextResolve(k) ==
    /\ k \in DOMAIN firings
    /\ firings[k].pc = "text"
    /\ \E ok \in BOOLEAN :
         firings' = [firings EXCEPT ![k] = HandleText(@, ok)]
    /\ UNCHANGED <<arg, ret, config, hostTz, phase, registered, now>>

\* Any step of the k-th firing's task.
FiringStep(k) == FiringStart(k) \/ SendResolve(k) \/ TextResolve(k)

Next ==
    \/ Exit
    \/ StartCronScheduler
    \/ Tick
    \/ \E k \in 1..Len(firings) : FiringStart(k)
    \/ \E k \in 1..Len(firings) : SendResolve(k)
    \/ \E k \in 1..Len(firings) : TextResolve(k)

Spec == Init /\ [][Next]_vars

-----------------------------------------------------------------------------
(* Function-level runs: one call of one function on an argument *)

\* Everything the scheduler run uses stays as it is before start-up.
NoScheduler ==
    /\ config = [timezone |-> NoTimezone, http_jobs |-> JArr(<<>>)]
    /\ hostTz = "UTC"
    /\ phase = "boot"
    /\ registered = <<>>
    /\ now = 0
    /\ firings = <<>>

\* Every spelling of the lower-case word w in upper- and lower-case letters.
Spellings(w) ==
    {[n \in DOMAIN w |->
        IF n \in U THEN CHOOSE c \in DOMAIN LowerOf : LowerOf[c] = w[n]
        ELSE w[n]] : U \in SUBSET DOMAIN w}

\* The method names of HTTP that the specification lists, in lower case, each
\* with the Method it names.
MethodNames ==
    { <<"GET", <<"g", "e", "t">> >>,
      <<"POST", <<"p", "o", "s", "t">> >>,
      <<"PUT", <<"p", "u", "t">> >>,
      <<"PATCH", <<"p", "a", "t", "c", "h">> >>,
      <<"DELETE", <<"d", "e", "l", "e", "t", "e">> >>,
      <<"OPTIONS", <<"o", "p", "t", "i", "o", "n", "s">> >>,
      <<"HEAD", <<"h", "e", "a", "d">> >> }

\* Method strings: every spelling of every listed name, and strings that
\* name no listed method.
MethodStrings ==
    UNION {Spellings(m[2]) : m \in MethodNames}
      \cup Spellings(<<"t", "r", "a", "c", "e">>)
      \cup {<<>>, <<"G", "E", "T", "S">>, <<"g", "e">>, <<"P", "O", "S", "T", " ">>}

MethodInit ==
    /\ NoScheduler
    /\ arg \in MethodStrings
    /\ ret = NoCall

CallGetMethod ==
    /\ ret = NoCall
    /\ ret' = <<get_method(arg)>>
    /\ UNCHANGED <<arg, config, hostTz, phase, registered, now, firings>>

MethodSpec == MethodInit /\ [][CallGetMethod]_vars

\* Request templates: HttpJobRequest values with and without headers and
\* body, the headers with and without a Content-Type of their own.
HeaderMembers ==
    {"content-type", "x-token"} \X {"text/plain", "application/json"}
HttpJobRequests ==
    [url : {JobUrl(1)},
     method : {DefaultMethod, <<"p", "o", "s", "t">>},
     headers : {None} \cup {Some(h) : h \in SeqsOf(HeaderMembers, 0, 2)},
     body : {None, Some(to_string("payload"))}]

RequestInit ==
    /\ NoScheduler
    /\ arg \in HttpJobRequests
    /\ ret = NoCall

CallBuildRequest ==
    /\ ret = NoCall
    /\ ret' = <<build_request(arg)>>
    /\ UNCHANGED <<arg, config, hostTz, phase, registered, now, firings>>

RequestSpec == RequestInit /\ [][CallBuildRequest]_vars

\* Job entries for the decoder: every field absent, of its own JSON type, or
\* of another one.
LooseRequests ==
    {Absent, JStr("http://host/")} \cup
    {JObj(o) : o \in
        [url : {Absent, JStr(JobUrl(1)), JNum(80)},
         method : {Absent, JStr(<<"p", "o", "s", "t">>), JNum(1)},
         headers : {Absent, JStr("X-Token: abc"),
                    JObj(<< <<"X-Token", JStr("abc")>> >>),
                    JObj(<< <<"X-Token", JNum(1)>> >>),
                    JObj(<< <<"X-Token", JStr("two\nlines")>> >>),
                    JObj(<< <<"bad name", JStr("abc")>> >>)},
         body : {Absent, JObj("payload"), JStr("payload")}]}
LooseEntries ==
    [name : {Absent, JStr(JobName(1)), JNum(1)},
     enable : {Absent, JBool(TRUE), JBool(FALSE), JStr("no")},
     cron : {Absent, JStr(EveryTick), JNum(5)},
     timeout : {Absent, JNum(100), JStr("1s"), JNeg},
     max_retry : {Absent, JNum(0), JStr("none")},
     request : LooseRequests]

\* Documents for the decoder: no http_jobs key, one that is no array, an
\* empty array, and every one-entry array.
LooseDocuments ==
    [timezone : {NoTimezone},
     http_jobs : {Absent, JStr("none"), JArr(<<>>)}
                    \cup {JArr(<<e>>) : e \in LooseEntries}]

DecodeInit ==
    /\ NoScheduler
    /\ arg \in LooseDocuments
    /\ ret = NoCall

CallGetHttpJobs ==
    /\ ret = NoCall
    /\ ret' = <<get_http_jobs(arg)>>
    /\ UNCHANGED <<arg, config, hostTz, phase, registered, now, firings>>

DecodeSpec == DecodeInit /\ [][CallGetHttpJobs]_vars

-----------------------------------------------------------------------------
(* Job-definition file search: configure/mod.rs *)

\* A path is the sequence of its parts, the dots between them included.
JobsJson == <<"./jobs", ".", "json">>
JobsYaml == <<"./jobs", ".", "yaml">>
JobsYml == <<"./jobs", ".", "yml">>

\* The candidates, in the order they are looked at.
files == <<JobsJson, JobsYaml, JobsYml>>

\* What the working directory can hold under a candidate's name: nothing, an
\* entry whose content cannot be read as a string (a directory, a file without
\* read permission, bytes that are not UTF-8), or a file with a text.
FileTexts == {"{}", "a: 1"}
FileStates == {"absent", "unreadable"} \cup FileTexts
Directories == [{files[n] : n \in DOMAIN files} -> FileStates]

\* Path::extension: what follows the last dot of the file name.
get_file_extension(file) ==
    IF Len(file) >= 3 /\ file[Len(file) - 1] = "."
    THEN Some(file[Len(file)])
    ELSE None

\* Mutant: the content is tagged Json whatever the file is called.
FileContent_from_json_only(content, file) ==
    [tag |-> "Json", content |-> content]

\* FileContent::from
FileContent_from(content, file) ==
    LET file_extension == get_file_extension(file)
    IN  CASE file_extension = Some("json") -> [tag |-> "Json", content |-> content]
          [] file_extension = Some("yaml") -> [tag |-> "Yaml", content |-> content]
          [] file_extension = Some("yml") -> [tag |-> "Yml", content |-> content]
          [] OTHER -> [tag |-> "Json", content |-> content]

\* fs::metadata(file).is_ok()
Exists(dir, file) == dir[file] # "absent"

\* read_file: fs::read_to_string with its error mapped to a message.
read_file(dir, file_path) ==
    IF dir[file_path] \in FileTexts
    THEN Ok(dir[file_path])
    ELSE Err("An error occurred while reading the file")

\* The loop of get_jobs_file_content over the candidates left, and what
\* follows it.
RECURSIVE scan_files(_, _, _, _)
scan_files(dir, left, content, count) ==
    IF left = <<>>
    THEN IF count = 0 THEN Err("No 'jobs' file found.") ELSE Ok(content)
    ELSE IF Exists(dir, left[1])
    THEN IF count > 0
         THEN Err("Multiple 'jobs' files exist. Please ensure only one file is present.")
         ELSE LET r == read_file(dir, left[1])
              IN  IF ~r.ok THEN r
                  ELSE scan_files(dir, Tail(left),
                                  FileContent_from(r.val, left[1]), count + 1)
    ELSE scan_files(dir, Tail(left), content, count)

get_jobs_file_content(dir) ==
    scan_files(dir, files, [tag |-> "None", content |-> ""], 0)

\* One call of get_jobs_file_content in a working directory.
FileInit ==
    /\ NoScheduler
    /\ arg \in Directories
    /\ ret = NoCall

CallGetJobsFileContent ==
    /\ ret = NoCall
    /\ ret' = <<get_jobs_file_content(arg)>>
    /\ UNCHANGED <<arg, config, hostTz, phase, registered, now, firings>>

FileSpec == FileInit /\ [][CallGetJobsFileContent]_vars

-----------------------------------------------------------------------------
(* Vocabulary of the properties *)

JobOf(f) == JOBS.http_jobs[f.job]

\* The firing has been dispatched and has neither ended nor panicked.
InFlight(f) == f.pc \in {"spawned", "send", "text"}

\* Number of firings of job i among the first n dispatched in sequence fs.
CountOf(i, fs) == Cardinality({k \in DOMAIN fs : fs[k].job = i})

\* The step is a scheduler evaluation instant.
IsTick == now' # now

\* Job i gets a new firing in this step.
FiredNow(i) == CountOf(i, firings') - CountOf(i, firings)

HasLog(f, kind) == \E m \in DOMAIN f.log : f.log[m].kind = kind

-----------------------------------------------------------------------------
(* C1 *)

\* C1: a job whose enable flag is false is never registered with the
\* scheduler and no firing of it is ever dispatched, whether or not its cron
\* expression matches.
C1_DisabledNeverFires ==
    /\ \A n \in DOMAIN registered : JOBS.http_jobs[registered[n]].enable
    /\ \A k \in DOMAIN firings : JobOf(firings[k]).enable

\* A disabled job whose expression matches every instant sits in the registry
\* while an instant has passed at which another job fired.
C1_Witness ==
    /\ phase = "running"
    /\ Len(firings) >= 1
    /\ \E i \in DOMAIN JOBS.http_jobs :
         /\ ~JOBS.http_jobs[i].enable
         /\ JOBS.http_jobs[i].cron = EveryTick

-----------------------------------------------------------------------------
(* C2 *)

\* C2: a firing of a job with max_retry = N > 0 sends at most N times, and
\* sends exactly once when its first attempt got an HTTP response of any
\* status.
C2_AtMostNAttempts ==
    \A k \in DOMAIN firings :
        LET f == firings[k]
            N == JobOf(f).max_retry
        IN  N > 0 =>
              /\ f.attempts <= N
              /\ (Len(f.outcomes) >= 1 /\ f.outcomes[1].kind = "resp")
                    => f.attempts = 1

\* A firing with a retry budget of 3 has run to its end after a non-2xx
\* response to its first attempt.
C2_Witness ==
    \E k \in DOMAIN firings :
        /\ JobOf(firings[k]).max_retry = DefaultMaxRetry
        /\ firings[k].pc = "end"
        /\ firings[k].outcomes = <<Response(404)>>

-----------------------------------------------------------------------------
(* C3 *)

\* C3: a firing of a job with max_retry = N > 0 that has ended made k+1
\* attempts, the first k failing at the transport level and the last one
\* receiving a response (k < N), or made N attempts that all failed at the
\* transport level.
C3_RetryUntilResponse ==
    \A k \in DOMAIN firings :
        LET f == firings[k]
            N == JobOf(f).max_retry
            n == Len(f.outcomes)
        IN  (N > 0 /\ f.pc = "end") =>
              /\ f.attempts = n
              /\ n >= 1 /\ n <= N
              /\ \A m \in 1..(n - 1) : f.outcomes[m].kind = "err"
              /\ \/ f.outcomes[n].kind = "resp"
                 \/ f.outcomes[n].kind = "err" /\ n = N

-----------------------------------------------------------------------------
(* C4 *)

\* C4: a firing of a job with max_retry = 0 never sends, and when it has
\* ended its log starts with the start record and ends with the end record.
C4_ZeroBudgetNoSend ==
    \A k \in DOMAIN firings :
        LET f == firings[k] IN
        JobOf(f).max_retry = 0 =>
          /\ f.attempts = 0
          /\ f.pc = "end" =>
               /\ f.log[1].kind = "start"
               /\ f.log[Len(f.log)].kind = "end"

-----------------------------------------------------------------------------
(* C5 *)

\* C5: an attempt that receives a response is the firing's last attempt; the
\* firing is logged as success exactly when the status is 2xx and otherwise
\* as failed with that status code, and no further attempt follows.
C5_ResponseTerminal ==
    \A k \in DOMAIN firings :
        LET f == firings[k] IN
        \A n \in DOMAIN f.outcomes :
            f.outcomes[n].kind = "resp" =>
              LET s == f.outcomes[n].status IN
              /\ n = Len(f.outcomes)
              /\ f.attempts = n
              /\ f.pc \in {"text", "end", "panicked"}
              /\ HasLog(f, "success") <=> s \in 200..299
              /\ (\E m \in DOMAIN f.log : f.log[m] = LogRec("failed_status", s))
                    <=> s \notin 200..299
              /\ ~HasLog(f, "failed_error")

\* A firing of a job with a retry budget of 3 got a 404 and has ended.
C5_Witness ==
    \E k \in DOMAIN firings :
        /\ JobOf(firings[k]).max_retry = DefaultMaxRetry
        /\ firings[k].pc = "end"
        /\ firings[k].attempts = 1
        /\ HasLog(firings[k], "failed_status")
        /\ firings[k].outcomes[1] = Response(404)

-----------------------------------------------------------------------------
(* C6 *)

\* C6: at every evaluation instant each enabled job whose schedule matches
\* the scheduler's wall clock gets exactly one new firing and every other job
\* gets none; no firing is created at any other step.
C6_OneFiringPerMatch ==
    [][ /\ Len(firings') >= Len(firings)
        /\ \A i \in DOMAIN JOBS.http_jobs :
             FiredNow(i) =
               IF /\ IsTick
                  /\ JOBS.http_jobs[i].enable
                  /\ CronMatches(JOBS.http_jobs[i].cron,
                                 LocalTime(now, SchedulerTz))
               THEN 1 ELSE 0
      ]_vars

\* Two enabled jobs are registered and exactly one firing exists: an instant
\* has passed at which one of them matched and the other did not.
C6_Witness ==
    /\ Len(registered) = 2
    /\ Len(firings) = 1
    /\ firings[1].pc = "spawned"

-----------------------------------------------------------------------------
(* C7 *)

\* C7: when a job is due at an evaluation instant while an earlier firing of
\* it is still in flight, a new firing of it is spawned and every earlier
\* firing is left as it is; and, up to the model's cap on firings, the
\* scheduler can always move to its next instant, whatever state the firings
\* are in.
C7_NoSingleFlight ==
    /\ [][ IsTick =>
             \A n \in DOMAIN registered :
                LET i == registered[n] IN
                ( /\ CronMatches(JOBS.http_jobs[i].cron,
                                 LocalTime(now, SchedulerTz))
                  /\ \E k \in DOMAIN firings :
                        firings[k].job = i /\ InFlight(firings[k]) )
                =>
                ( /\ \E m \in (Len(firings) + 1)..Len(firings') :
                        firings'[m].job = i /\ firings'[m].pc = "spawned"
                  /\ \A k \in DOMAIN firings : firings'[k] = firings[k] )
         ]_vars
    /\ []( (phase = "running" /\ Len(firings) + Len(registered) <= MaxFirings)
              => ENABLED Tick )

\* Two firings of the same job are awaiting their responses at the same time.
C7_Witness ==
    \E k1, k2 \in DOMAIN firings :
        /\ k1 < k2
        /\ firings[k1].job = firings[k2].job
        /\ firings[k1].pc = "send"
        /\ firings[k2].pc = "send"

-----------------------------------------------------------------------------
(* C9 *)

\* C9: a firing whose attempt is awaiting a peer that never answers can still
\* take a step (its per-attempt timeout resolves the attempt as a transport
\* failure), so it is never left waiting for good short of its end.
C9_SilentPeerTimesOut ==
    \A k \in DOMAIN firings :
        (firings[k].pc = "send" /\ firings[k].peer = "silent")
          => ENABLED FiringStep(k)

-----------------------------------------------------------------------------
(* C10 *)

\* C10: at every evaluation instant a job fires exactly when it is enabled
\* and its cron expression matches the current time in the registry's
\* timezone (UTC when the configured one is absent or invalid).
C10_RegistryTimezone ==
    [][ IsTick =>
          \A i \in DOMAIN JOBS.http_jobs :
             (FiredNow(i) >= 1) <=>
               /\ JOBS.http_jobs[i].enable
               /\ CronMatches(JOBS.http_jobs[i].cron,
                              LocalTime(now, JOBS.timezone))
      ]_vars

-----------------------------------------------------------------------------
(* C11 *)

\* C11: get_method maps every spelling, in any letter case, of GET, POST, PUT,
\* PATCH, DELETE, OPTIONS and HEAD to the method of that name, and every
\* other string to GET.
C11_MethodResolution ==
    Returned =>
        LET named == {m \in MethodNames : to_lowercase(arg) = m[2]}
        IN  /\ \A m \in named : Ret = m[1]
            /\ named = {} => Ret = "GET"

-----------------------------------------------------------------------------
(* C12 *)

\* The values the request carries under header name n, in order.
ValuesOf(headers, n) ==
    LET members == SelectSeq(headers, LAMBDA m : m[1] = n)
    IN  [k \in DOMAIN members |-> members[k][2]]

\* C12: a request built from a template with a body carries exactly one
\* Content-Type value, application/json, whatever the template's own headers
\* say; one built from a template without a body carries the template's
\* headers and nothing else.
C12_JsonContentType ==
    Returned =>
        IF arg.body # None
        THEN ValuesOf(Ret.headers, "content-type") = <<"application/json">>
        ELSE Ret.headers = (IF arg.headers = None THEN <<>> ELSE arg.headers[1])

-----------------------------------------------------------------------------
(* C13 *)

\* The document holds exactly one entry.
OneEntry == arg.http_jobs.t = "arr" /\ Len(arg.http_jobs.v) = 1
TheEntry == arg.http_jobs.v[1]

\* Key k of the entry's request object (absent when request is no object).
RequestKey(k) ==
    IF TheEntry.request.t = "obj" THEN TheEntry.request.v[k] ELSE Absent

\* The entry holds name, cron and request.url and nothing else.
Minimal ==
    /\ TheEntry.name.t = "str" /\ TheEntry.cron.t = "str"
    /\ RequestKey("url").t = "str"
    /\ TheEntry.enable.t = "absent"
    /\ TheEntry.timeout.t = "absent"
    /\ TheEntry.max_retry.t = "absent"
    /\ RequestKey("method").t = "absent"
    /\ RequestKey("headers").t = "absent"
    /\ RequestKey("body").t = "absent"

C13_ExplicitDecoded ==
    /\ Returned /\ OneEntry /\ Ret.ok
    /\ TheEntry.enable = JBool(FALSE)
    /\ TheEntry.timeout = JNum(100)
    /\ TheEntry.max_retry = JNum(0)
    /\ RequestKey("method") = JStr(<<"p", "o", "s", "t">>)

-----------------------------------------------------------------------------
(* C18 *)

\* The value is there and is not of JSON type t.
WrongType(x, t) == x.t # "absent" /\ x.t # t

\* C18: decoding fails whenever a field of the entry is of the wrong type:
\* name, cron, request.url, enable, timeout, max_retry, method, headers (no
\* mapping, or a header value that is no string) or body.
C18_WrongTypeFails ==
    (Returned /\ OneEntry) =>
        LET e == TheEntry
            h == RequestKey("headers")
        IN  ( \/ WrongType(e.name, "str")
              \/ WrongType(e.cron, "str")
              \/ WrongType(RequestKey("url"), "str")
              \/ WrongType(e.enable, "bool")
              \/ WrongType(e.timeout, "u64")
              \/ WrongType(e.max_retry, "u64")
              \/ WrongType(RequestKey("method"), "str")
              \/ WrongType(h, "obj")
              \/ h.t = "obj" /\ \E n \in DOMAIN h.v : h.v[n][2].t # "str"
              \/ WrongType(RequestKey("body"), "obj") )
            => ~Ret.ok

-----------------------------------------------------------------------------
(* C14 *)

\* Entry e of the document lacks name, cron or request.url.
LacksRequired(e) ==
    \/ e.name.t = "absent"
    \/ e.cron.t = "absent"
    \/ e.request.t = "absent"
    \/ e.request.v.url.t = "absent"

\* The document resolves to no job, or one of its entries lacks a required
\* field.
BadConfiguration ==
    \/ Len(config.http_jobs.v) = 0
    \/ \E n \in DOMAIN config.http_jobs.v : LacksRequired(config.http_jobs.v[n])

\* C14: from a document with no job, or with an entry that lacks name, cron
\* or request.url, the process never gets to scheduling: it ends at start-up,
\* no job is registered and no firing is dispatched.
C14_NoSchedulingFromBadConfig ==
    BadConfiguration =>
        /\ phase \in {"boot", "exited"}
        /\ registered = <<>>
        /\ firings = <<>>
        /\ phase = "boot" => ENABLED Exit /\ ~ENABLED StartCronScheduler

\* The process has ended on a document whose first entry is a complete,
\* enabled job and whose second entry lacks a required field.
C14_Witness ==
    /\ phase = "exited"
    /\ Len(config.http_jobs.v) = 2
    /\ ~LacksRequired(config.http_jobs.v[1])
    /\ config.http_jobs.v[1].enable = JBool(TRUE)
    /\ LacksRequired(config.http_jobs.v[2])

-----------------------------------------------------------------------------
(* C15 *)

-----------------------------------------------------------------------------
(* C16 *)

OutcomeKinds == {"success", "failed_status", "failed_error"}

\* The number of records of log whose kind is in kinds.
RECURSIVE CountKinds(_, _)
CountKinds(log, kinds) ==
    IF log = <<>> THEN 0
    ELSE (IF log[1].kind \in kinds THEN 1 ELSE 0) + CountKinds(Tail(log), kinds)

\* The task of firing f has stopped, by returning or by panicking.
Stopped(f) == f.pc \in {"end", "panicked"}

\* C16: the log of a firing whose task has stopped begins with the start
\* record, has one outcome record per attempt made, and ends with the one end
\* record, however the attempt resolved.
C16_LogShape ==
    \A k \in DOMAIN firings :
        LET f == firings[k] IN
        Stopped(f) =>
            /\ f.log # <<>>
            /\ f.log[1].kind = "start"
            /\ CountKinds(f.log, OutcomeKinds) = f.attempts
            /\ CountKinds(f.log, {"end"}) = 1
            /\ f.log[Len(f.log)].kind = "end"

-----------------------------------------------------------------------------
(* C17 *)

\* Firing f has met a failure: a transport error, a non-2xx response, or a
\* body that could not be read.
Failed(f) ==
    \/ f.pc = "panicked"
    \/ \E n \in DOMAIN f.outcomes :
          f.outcomes[n].kind = "err" \/ ~is_success(f.outcomes[n].status)

\* C17: a step of one firing, failures included, changes that firing only:
\* the process keeps running, the registered jobs, the clock and every other
\* firing are as before; and with failed firings around the scheduler still
\* takes its next evaluation instant, which dispatches the due jobs.
C17_FailuresContained ==
    [][ /\ \A k \in DOMAIN firings :
             FiringStep(k) =>
                /\ phase' = phase
                /\ registered' = registered
                /\ now' = now
                /\ DOMAIN firings' = DOMAIN firings
                /\ \A m \in DOMAIN firings : m # k => firings'[m] = firings[m]
        /\ (/\ \E k \in DOMAIN firings : Failed(firings[k])
            /\ IsTick)
              => /\ Len(firings') = Len(firings) + Len(Due(now))
                 /\ \A n \in DOMAIN Due(now) :
                       firings'[Len(firings) + n] = Spawn(Due(now)[n])
        /\ (/\ \E k \in DOMAIN firings : Failed(firings[k])
            /\ phase = "running"
            /\ Len(firings) + Len(Due(now)) <= MaxFirings)
              => ENABLED Tick
      ]_vars

\* A job was dispatched after an earlier firing's task had panicked: the first
\* firing has panicked and the second, of a job that is due at every instant,
\* is in flight.
C17_Witness ==
    /\ Len(firings) = 2
    /\ firings[1].pc = "panicked"
    /\ firings[2].pc = "send"
    /\ Len(registered) = 1

-----------------------------------------------------------------------------
(* C20 *)

\* The job document entry whose schedule triggered firing f, as decoded.
TriggeringJob(f) == get_http_jobs(config).val[f.job]

\* C20: whatever the interleaving, the document is never changed, and a
\* firing that has started logs the name and sends the request (method, url,
\* headers, body) of the job whose closure dispatched it.
C20_OwnJobOnly ==
    [][ /\ config' = config
        /\ \A k \in DOMAIN firings' :
             LET f == firings'[k] IN
             f.pc # "spawned" =>
                /\ f.name = Some(TriggeringJob(f).name)
                /\ f.sent = Some(build_request(TriggeringJob(f).request))
                /\ f.sent[1].url = JobUrl(f.job)
      ]_vars

\* Firings of two different jobs are in flight together, each with its own
\* request sent.
C20_Witness ==
    /\ Len(firings) = 2
    /\ firings[1].job # firings[2].job
    /\ firings[1].pc = "send"
    /\ firings[2].pc = "send"
    /\ firings[1].sent # firings[2].sent

-----------------------------------------------------------------------------
(* C19 *)

\* The candidates that exist in the directory arg, and the first of them.
Existing == {n \in DOMAIN files : Exists(arg, files[n])}
FirstExisting == CHOOSE n \in Existing : \A m \in Existing : n <= m

\* The format named by the extension of the n-th candidate.
FormatOf(n) == CASE n = 1 -> "Json" [] n = 2 -> "Yaml" [] n = 3 -> "Yml"

IsError(r, msg) == ~r.ok /\ r.val = msg
NotFound == "No 'jobs' file found."
Multiple == "Multiple 'jobs' files exist. Please ensure only one file is present."
ReadError == "An error occurred while reading the file"

\* The content of the n-th candidate, tagged with its format.
IsContentOf(r, n) ==
    /\ r.ok
    /\ r.val.tag = FormatOf(n)
    /\ r.val.content = arg[files[n]]

\* C19: with no candidate the loader fails with 'not found', with two or
\* more with 'multiple files', and with exactly one it returns that file's
\* content tagged with the format of its extension.
C19_SourceSelection ==
    Returned =>
        /\ Cardinality(Existing) = 0 => IsError(Ret, NotFound)
        /\ Cardinality(Existing) >= 2 => IsError(Ret, Multiple)
        /\ Cardinality(Existing) = 1 => IsContentOf(Ret, FirstExisting)

\* C19, amended: with no candidate the loader fails with 'not found'; when
\* the first existing candidate cannot be read it fails with a read error;
\* when it can be read, the loader fails with 'multiple files' if another
\* candidate exists and otherwise returns its content tagged with the format
\* of its extension.
C19_SourceSelectionReadable ==
    Returned =>
        /\ Cardinality(Existing) = 0 => IsError(Ret, NotFound)
        /\ Cardinality(Existing) >= 1 =>
              IF arg[files[FirstExisting]] \notin FileTexts
              THEN IsError(Ret, ReadError)
              ELSE IF Cardinality(Existing) >= 2
              THEN IsError(Ret, Multiple)
              ELSE IsContentOf(Ret, FirstExisting)

\* The loader has returned the text of jobs.yaml, the only candidate there.
C19_Witness ==
    /\ Returned
    /\ Existing = {2}
    /\ arg[JobsYaml] = "a: 1"
    /\ Ret.ok
    /\ Ret.val.tag = "Yaml"

\* The loader has failed on a lone candidate that cannot be read.
C19_UnreadableAlone ==
    /\ Returned
    /\ Existing = {1}
    /\ arg[JobsJson] = "unreadable"
    /\ ~Ret.ok

====
